---- MODULE Spec2Model ----
(***************************************************************************)
(* State-machine model of the RobustDetector component                     *)
(* (src/components/Detector.tsx, the default export mounted by App).       *)
(*                                                                         *)
(* React state (status, imageSrc, detections, progress), the detector ref, *)
(* the pending promises (model load, detector calls, FileReader reads) and *)
(* the rendered output (button disabled flags, bounding-box overlay) are   *)
(* the variables.  Every event handler and every promise continuation is   *)
(* one atomic action: JavaScript runs each of them to completion, and      *)
(* React re-renders before the next event is dispatched.                   *)
(*                                                                         *)
(* Numbers: a box coordinate c stands for the fraction c / Unit, and a     *)
(* rendered CSS percentage is kept as the pair num / den.                  *)
(***************************************************************************)
EXTENDS Integers, Sequences, FiniteSets, TLC

(***************************************************************************)
(* Bounds of the model.                                                    *)
(***************************************************************************)
MaxInFlight == 2    \* detector calls pending at the same time
MaxReads    == 1    \* FileReader reads pending at the same time
MaxResults  == 1    \* length of a result set the detector returns
Unit        == 10   \* resolution of the coordinate grid: c stands for c / Unit

(***************************************************************************)
(* types.ts                                                                *)
(***************************************************************************)
AppStatus == {"LOADING_MODEL", "READY", "ANALYZING", "ERROR"}

Null == "null"

BoundingBox(xmin, ymin, xmax, ymax) ==
    [xmin |-> xmin, ymin |-> ymin, xmax |-> xmax, ymax |-> ymax]

DetectionResult(box, label, score) ==
    [box |-> box, label |-> label, score |-> score]

(***************************************************************************)
(* The environment: what the user can pick and what the external detector  *)
(* can answer.  PipelineType promises a DetectionResult[] of plain         *)
(* numbers, so the answers include boxes outside the unit square and boxes *)
(* with xmin > xmax.  Scores are in hundredths.                            *)
(***************************************************************************)
sampleUrl == "https://huggingface.co/datasets/Xenova/transformers.js-docs/resolve/main/cats.jpg"

NoFile == "nofile"
Files  == {"A"}

\* FileReader.readAsDataURL: the file's content as a data: URI
readAsDataURL(file) == "data:image/png;base64," \o file

DetectorAnswers ==
    { DetectionResult(BoundingBox(1, 1, 5, 5), "cat", 93),
      DetectionResult(BoundingBox(0, 2, Unit, Unit), "elephant", 51),
      DetectionResult(BoundingBox(5, 0 - 1, 1, Unit + 1), "cat", 70) }

RECURSIVE SeqsUpTo(_, _)
SeqsUpTo(S, n) ==
    IF n = 0 THEN { <<>> }
    ELSE LET shorter == SeqsUpTo(S, n - 1)
         IN  shorter \cup { Append(s, x) : s \in shorter, x \in S }

ResultSets == SeqsUpTo(DetectorAnswers, MaxResults)

RemoveAt(s, i) == SubSeq(s, 1, i - 1) \o SubSeq(s, i + 1, Len(s))

VARIABLES
    status,      \* useState<AppStatus>
    imageSrc,    \* useState<string | null>
    detections,  \* useState<DetectionResult[]>
    progress,    \* useState<string>
    detector,    \* detectorRef.current: Null or "loaded"
    load,        \* the pipeline() promise: "pending", "resolved", "rejected"
    calls,       \* detector calls awaiting their result, in call order
    reads,       \* FileReader reads awaiting onload, in start order
    dialogOpen,  \* the file chooser opened by fileInputRef.current.click()
    view,        \* what the last render put on the page
    statusLog,   \* history: the last two values status had before now
    resultsFor   \* history: the image source of the call detections came from

vars == <<status, imageSrc, detections, progress, detector, load, calls,
          reads, dialogOpen, view, statusLog, resultsFor>>

(***************************************************************************)
(* Rendering (the JSX returned by RobustDetector).                         *)
(***************************************************************************)
\* `${n * 100}%` for a coordinate n = c / Unit: the percentage (c * 100) / Unit
Percent(c) == [num |-> c * 100, den |-> Unit, unit |-> "%"]

\* the style of one bounding-box div
BoxStyleNoSubtract(box) ==
    [left   |-> Percent(box.xmin),
     top    |-> Percent(box.ymin),
     width  |-> Percent(box.xmax),
     height |-> Percent(box.ymax)]

BoxStyle(box) ==
    [left   |-> Percent(box.xmin),
     top    |-> Percent(box.ymin),
     width  |-> Percent(box.xmax - box.xmin),
     height |-> Percent(box.ymax - box.ymin)]

\* the disabled attribute of the Use Sample and of the Upload Image button
ButtonDisabledUnlessReady(s) == s # "READY"

ButtonDisabled(s) == s = "LOADING_MODEL" \/ s = "ANALYZING"

\* {imageSrc && (<img/> {detections.map(...)})}
Overlay(src, dets) ==
    IF src = Null THEN <<>>
    ELSE [i \in DOMAIN dets |-> BoxStyle(dets[i].box)]

\* `hsl(${h}, 80%, 60%)` and `hsla(${h}, 80%, 60%, 0.1)`
Hsl(h)  == [fn |-> "hsl", h |-> h, s |-> 80, l |-> 60]
Hsla(h) == [fn |-> "hsla", h |-> h, s |-> 80, l |-> 60,
            a |-> [num |-> 1, den |-> 10]]

\* the colours of the box drawn for det, the i-th element of detections:
\* border, fill and label chip all use (label.length * 50) % 360
BoxColorsByScore(det, i) ==
    [borderColor     |-> Hsl((det.score * 50) % 360),
     backgroundColor |-> Hsla((det.score * 50) % 360),
     chipColor       |-> Hsl((det.score * 50) % 360)]

BoxColors(det, i) ==
    [borderColor     |-> Hsl((Len(det.label) * 50) % 360),
     backgroundColor |-> Hsla((Len(det.label) * 50) % 360),
     chipColor       |-> Hsl((Len(det.label) * 50) % 360)]

Colors(src, dets) ==
    IF src = Null THEN <<>>
    ELSE [i \in DOMAIN dets |-> BoxColors(dets[i], i)]

Render(s, src, dets) ==
    [sampleDisabled |-> ButtonDisabled(s),
     uploadDisabled |-> ButtonDisabled(s),
     image          |-> src,
     overlay        |-> Overlay(src, dets),
     colors         |-> Colors(src, dets)]

\* the two most recent entries of a history
LastTwo(log) ==
    IF Len(log) < 2 THEN log ELSE SubSeq(log, Len(log) - 1, Len(log))

\* every setStatus that changes the value pushes the old one on the history
Logged(log, old, new) == IF new = old THEN log ELSE LastTwo(Append(log, old))

\* React commits the new state: the page is rendered from it
Commit ==
    /\ view' = Render(status', imageSrc', detections')
    /\ statusLog' = Logged(statusLog, status, status')

\* the progress string: a fixed text and, for a download, the percentage p
ProgressText(text, p) == [text |-> text, p |-> p]

(***************************************************************************)
(* Initial state: the component has mounted and the effect has started     *)
(* loadModel, which is suspended at await pipeline(...).                   *)
(***************************************************************************)
Init ==
    /\ status = "LOADING_MODEL"
    /\ imageSrc = Null
    /\ detections = <<>>
    /\ progress = ProgressText("", 0)
    /\ detector = Null
    /\ load = "pending"
    /\ calls = <<>>
    /\ reads = <<>>
    /\ dialogOpen = FALSE
    /\ view = Render("LOADING_MODEL", Null, <<>>)
    /\ statusLog = <<>>
    /\ resultsFor = Null

(***************************************************************************)
(* loadModel                                                               *)
(***************************************************************************)
\* Math.round of a number given in tenths
Round(tenths) == (tenths + 5) \div 10

\* what the loader reports: data.progress in tenths, 0 standing for a
\* missing or zero progress field
ProgressEvents ==
    { [status |-> "progress", progress |-> 0],
      [status |-> "progress", progress |-> 425],
      [status |-> "ready", progress |-> 0],
      [status |-> "initiate", progress |-> 0] }

progress_callback(data) ==
    /\ load = "pending"
    /\ progress' =
          IF data.status = "progress"
          THEN ProgressText("Loading Model: ",
                            IF data.progress # 0 THEN Round(data.progress) ELSE 0)
          ELSE IF data.status = "ready" THEN ProgressText("Initializing...", 0)
          ELSE progress
    /\ UNCHANGED <<resultsFor, status, imageSrc, detections, detector, load, calls,
                   reads, dialogOpen>>
    /\ Commit

\* await pipeline(...) resolves: detectorRef.current is set, then READY
LoadModelResolves ==
    /\ load = "pending"
    /\ load' = "resolved"
    /\ detector' = "loaded"
    /\ status' = "READY"
    /\ UNCHANGED <<resultsFor, imageSrc, detections, progress, calls, reads, dialogOpen>>
    /\ Commit

\* await pipeline(...) rejects: the catch block
LoadModelRejects ==
    /\ load = "pending"
    /\ load' = "rejected"
    /\ status' = "ERROR"
    /\ UNCHANGED <<resultsFor, imageSrc, detections, progress, detector, calls, reads,
                   dialogOpen>>
    /\ Commit

(***************************************************************************)
(* runDetection                                                            *)
(***************************************************************************)
DetectOptions == [threshold |-> [num |-> 1, den |-> 2], percentage |-> TRUE]

\* if (!detectorRef.current) return;
NoDetectorNeverChecked == FALSE

NoDetector == detector = Null

\* the synchronous part, up to the await of the detector call
RunDetection(src) ==
    IF NoDetector
    THEN UNCHANGED <<status, detections, calls, resultsFor>>
    ELSE /\ status' = "ANALYZING"
         /\ detections' = <<>>
         /\ resultsFor' = Null
         /\ calls' = Append(calls, [src |-> src, options |-> DetectOptions])

\* the continuation after the await: the call returned results
OnDetectionSuccessKeepsStatus(results) ==
    /\ detections' = results
    /\ status' = status

OnDetectionSuccess(results) ==
    /\ detections' = results
    /\ status' = "READY"

\* the continuation after the await: the call threw, the catch block
OnDetectionFailureKeepsStatus ==
    /\ status' = status
    /\ UNCHANGED detections

OnDetectionFailure ==
    /\ status' = "ERROR"
    /\ UNCHANGED detections

DetectorResolves(i, results) ==
    /\ i \in DOMAIN calls
    /\ calls' = RemoveAt(calls, i)
    /\ OnDetectionSuccess(results)
    /\ resultsFor' = calls[i].src
    /\ UNCHANGED <<imageSrc, progress, detector, load, reads, dialogOpen>>
    /\ Commit

DetectorRejects(i) ==
    /\ i \in DOMAIN calls
    /\ calls' = RemoveAt(calls, i)
    /\ OnDetectionFailure
    /\ UNCHANGED <<resultsFor, imageSrc, progress, detector, load, reads, dialogOpen>>
    /\ Commit

(***************************************************************************)
(* The user's actions.  A click reaches its handler only if the button is  *)
(* not disabled on the page, and not while the file chooser is open.       *)
(***************************************************************************)
handleSampleImage ==
    /\ ~view.sampleDisabled
    /\ ~dialogOpen
    /\ Len(calls) < MaxInFlight
    /\ imageSrc' = sampleUrl
    /\ RunDetection(sampleUrl)
    /\ UNCHANGED <<progress, detector, load, reads, dialogOpen>>
    /\ Commit

\* onClick={() => fileInputRef.current?.click()}
UploadClick ==
    /\ ~view.uploadDisabled
    /\ ~dialogOpen
    /\ dialogOpen' = TRUE
    /\ UNCHANGED <<resultsFor, status, imageSrc, detections, progress, detector, load,
                   calls, reads>>
    /\ Commit

\* onChange of the file input: file is e.target.files?.[0]
handleFileUpload(file) ==
    /\ dialogOpen
    /\ dialogOpen' = FALSE
    /\ IF file = NoFile
       THEN UNCHANGED reads
       ELSE /\ Len(reads) < MaxReads
            /\ reads' = Append(reads, file)
    /\ UNCHANGED <<resultsFor, status, imageSrc, detections, progress, detector, load,
                   calls>>
    /\ Commit

\* reader.onload
ReaderOnload(i) ==
    /\ i \in DOMAIN reads
    /\ Len(calls) < MaxInFlight
    /\ reads' = RemoveAt(reads, i)
    /\ LET src == readAsDataURL(reads[i])
       IN  /\ imageSrc' = src
           /\ RunDetection(src)
    /\ UNCHANGED <<progress, detector, load, dialogOpen>>
    /\ Commit

\* the read fails: no onerror handler is installed, nothing happens
ReaderError(i) ==
    /\ i \in DOMAIN reads
    /\ reads' = RemoveAt(reads, i)
    /\ UNCHANGED <<resultsFor, status, imageSrc, detections, progress, detector, load,
                   calls, dialogOpen>>
    /\ Commit

Next ==
    \/ \E data \in ProgressEvents : progress_callback(data)
    \/ LoadModelResolves
    \/ LoadModelRejects
    \/ handleSampleImage
    \/ UploadClick
    \/ \E file \in Files \cup {NoFile} : handleFileUpload(file)
    \/ \E i \in 1..MaxReads : ReaderOnload(i)
    \/ \E i \in 1..MaxReads : ReaderError(i)
    \/ \E i \in 1..MaxInFlight, results \in ResultSets : DetectorResolves(i, results)
    \/ \E i \in 1..MaxInFlight : DetectorRejects(i)

Spec == Init /\ [][Next]_vars

(***************************************************************************)
(* Promises settle: the pending pipeline() promise and the pending         *)
(* detector calls are eventually resolved or rejected by the library.      *)
(* Nothing obliges the user to act.                                        *)
(***************************************************************************)
LoadSettles == LoadModelResolves \/ LoadModelRejects

DetectorSettles ==
    \E i \in 1..MaxInFlight :
        \/ \E results \in ResultSets : DetectorResolves(i, results)
        \/ DetectorRejects(i)

FairSpec == Spec /\ WF_vars(LoadSettles) /\ WF_vars(DetectorSettles)

TypeOK ==
    /\ status \in AppStatus
    /\ imageSrc \in {Null, sampleUrl} \cup { readAsDataURL(f) : f \in Files }
    /\ detections \in ResultSets
    /\ detector \in {Null, "loaded"}
    /\ load \in {"pending", "resolved", "rejected"}
    /\ Len(calls) <= MaxInFlight
    /\ Len(reads) <= MaxReads
    /\ dialogOpen \in BOOLEAN

(***************************************************************************)
(* Properties.                                                             *)
(***************************************************************************)

\* C1: status only ever changes along LOADING_MODEL->READY,
\* LOADING_MODEL->ERROR, READY->ANALYZING, ANALYZING->READY and
\* ANALYZING->ERROR; no other change of status occurs.
AllowedTransitions ==
    { <<"LOADING_MODEL", "READY">>, <<"LOADING_MODEL", "ERROR">>,
      <<"READY", "ANALYZING">>,
      <<"ANALYZING", "READY">>, <<"ANALYZING", "ERROR">> }

C1_StatusTransitions ==
    [][status' # status => <<status, status'>> \in AllowedTransitions]_vars

\* C2: in every reachable state the sample button and the upload button are
\* enabled if and only if status = READY.
C2_ControlsEnabledIffReady ==
    /\ ~view.sampleDisabled <=> status = "READY"
    /\ ~view.uploadDisabled <=> status = "READY"

\* C3: at most one detector call is in flight at any time.
C3_AtMostOneInFlight == Len(calls) <= 1

\* C4: whenever a detection call throws, the state right after the catch
\* block has status = ERROR, shows the image the call was started for, and
\* has an empty detection result set.
C4_FailureState ==
    [][\A i \in DOMAIN calls :
          DetectorRejects(i) =>
              /\ status' = "ERROR"
              /\ imageSrc' = calls[i].src
              /\ view'.image = calls[i].src
              /\ detections' = <<>>]_vars

\* C5: if the model load throws, status is ERROR from then on, the sample
\* and upload buttons are never enabled and no detector call is started.
C5_LoadFailureTerminal ==
    load = "rejected" =>
        /\ status = "ERROR"
        /\ view.sampleDisabled
        /\ view.uploadDisabled
        /\ calls = <<>>

\* C6: runDetection called while no detector is loaded is a no-op: status,
\* the detection result set and the set of detector calls stay as they are.
C6_NoDetectorNoOp ==
    [][(detector = Null /\ (handleSampleImage
                            \/ \E i \in DOMAIN reads : ReaderOnload(i)))
          => UNCHANGED <<status, detections, calls>>]_vars

\* a handler ran runDetection with no detector: the image was set after a
\* failed load, and nothing else moved
C6_Witness ==
    /\ load = "rejected"
    /\ detector = Null
    /\ imageSrc # Null
    /\ status = "ERROR"
    /\ calls = <<>>

\* C7: runDetection(src) with a loaded detector in status READY sets status
\* to ANALYZING, empties the result set and adds exactly one detector call,
\* for src with options {threshold: 1/2, percentage: true}; when a call
\* returns the result set R, detections = R and status = READY.
C7_Started(src) ==
    /\ status' = "ANALYZING"
    /\ detections' = <<>>
    /\ Len(calls') = Len(calls) + 1
    /\ SubSeq(calls', 1, Len(calls)) = calls
    /\ calls'[Len(calls')].src = src
    /\ calls'[Len(calls')].options.threshold.num * 2
          = calls'[Len(calls')].options.threshold.den
    /\ calls'[Len(calls')].options.percentage = TRUE

C7_RunDetection ==
    [][/\ (detector # Null /\ status = "READY") =>
             /\ handleSampleImage => C7_Started(sampleUrl)
             /\ \A i \in DOMAIN reads :
                   ReaderOnload(i) => C7_Started(readAsDataURL(reads[i]))
       /\ \A i \in DOMAIN calls : \A results \in ResultSets :
             DetectorResolves(i, results) =>
                 /\ detections' = results
                 /\ status' = "READY"
                 /\ Len(calls') = Len(calls) - 1]_vars

\* a call started from READY has returned a non-empty result set
C7_Witness ==
    /\ status = "READY"
    /\ detections # <<>>
    /\ calls = <<>>
    /\ statusLog = <<"READY", "ANALYZING">>

ValidBox(b) ==
    /\ 0 <= b.xmin /\ b.xmin <= b.xmax /\ b.xmax <= Unit
    /\ 0 <= b.ymin /\ b.ymin <= b.ymax /\ b.ymax <= Unit

C9_StoredBoxesValid ==
    \A i \in DOMAIN detections : ValidBox(detections[i].box)

\* C10: the page shows one rectangle per detection, with left = xmin * 100%,
\* top = ymin * 100%, width = (xmax - xmin) * 100% and
\* height = (ymax - ymin) * 100%; the box {0.1, 0.1, 0.5, 0.5} gives
\* 10%, 10%, 40%, 40%; and for a valid box width and height are not
\* negative, left + width <= 100% and top + height <= 100%.
C10_IsPercent(p, n) == p.unit = "%" /\ p.num = n * 100 /\ p.den = Unit

C10_OverlayRectangles ==
    /\ Len(view.overlay) = Len(detections)
    /\ \A i \in DOMAIN view.overlay :
          LET b  == detections[i].box
              st == view.overlay[i]
          IN  /\ C10_IsPercent(st.left, b.xmin)
              /\ C10_IsPercent(st.top, b.ymin)
              /\ C10_IsPercent(st.width, b.xmax - b.xmin)
              /\ C10_IsPercent(st.height, b.ymax - b.ymin)
              /\ (/\ 10 * b.xmin = Unit /\ 10 * b.ymin = Unit
                  /\ 10 * b.xmax = 5 * Unit /\ 10 * b.ymax = 5 * Unit)
                 => /\ st.left.num = 10 * st.left.den
                    /\ st.top.num = 10 * st.top.den
                    /\ st.width.num = 40 * st.width.den
                    /\ st.height.num = 40 * st.height.den
              /\ ValidBox(b) =>
                    /\ st.width.num >= 0
                    /\ st.height.num >= 0
                    /\ st.left.num + st.width.num <= 100 * st.left.den
                    /\ st.top.num + st.height.num <= 100 * st.top.den

\* the page shows the rectangle 10%, 10%, 40%, 40%
C10_Witness ==
    \E i \in DOMAIN view.overlay :
        /\ view.overlay[i].left.num = 10 * view.overlay[i].left.den
        /\ view.overlay[i].top.num = 10 * view.overlay[i].top.den
        /\ view.overlay[i].width.num = 40 * view.overlay[i].width.den
        /\ view.overlay[i].height.num = 40 * view.overlay[i].height.den

\* C11: the colour of a detection is a function of its label alone: two
\* detections with the same label have the same hue, whatever their box,
\* score, position in the result set or detection run, and every hue is in
\* 0..359.
C11_Hues(c) == {c.borderColor.h, c.backgroundColor.h, c.chipColor.h}

C12_ResultsOfShownImage ==
    detections # <<>> => resultsFor = imageSrc /\ resultsFor = view.image

\* C13: provided the model load and every detector call settle, a status of
\* LOADING_MODEL or ANALYZING is always followed by READY or ERROR, and
\* status is not ANALYZING when no detector call is pending.
C13_BusyEnds ==
    /\ (status \in {"LOADING_MODEL", "ANALYZING"})
          ~> (status \in {"READY", "ERROR"})
    /\ [](calls = <<>> => status # "ANALYZING")
    /\ [](load # "pending" => status # "LOADING_MODEL")

\* a detection was started and its call threw: ANALYZING has ended in
\* ERROR and no call is pending
C13_Witness ==
    /\ status = "ERROR"
    /\ Len(statusLog) = 2
    /\ statusLog[2] = "ANALYZING"
    /\ calls = <<>>
    /\ load = "resolved"

====
